---- MODULE Spec2Model ----
(***************************************************************************)
(* The conntrack input plugin (plugins/inputs/conntrack/conntrack.go):     *)
(* Conntrack.Gather walks Dirs x Files, reads and parses the counter files *)
(* into one fields record, then (collect_stats) asks the platform          *)
(* statistics provider for the conntrack counters and emits one tagged     *)
(* counter record per entry.                                               *)
(*                                                                         *)
(* Strings the code takes apart (file names, file contents) are sequences  *)
(* of one-character strings; strings it only passes on are TLA+ strings.   *)
(* float64 values are the integers they hold: every content of the model   *)
(* that parses is a short decimal integer, which float64 holds exactly.    *)
(***************************************************************************)
EXTENDS Integers, Sequences, FiniteSets, TLC

(***************************************************************************)
(* Bounds of the model.                                                    *)
(***************************************************************************)
\* At most this many of the configured (dir, file) pairs exist on the
\* filesystem.
MaxPresent == 2
\* The provider returns at most this many entries.
MaxEntries == 2

(***************************************************************************)
(* Package-level values.                                                   *)
(***************************************************************************)
inputName == "conntrack"

dfltDirs == <<"/proc/sys/net/ipv4/netfilter", "/proc/sys/net/netfilter">>

ip_conntrack_count ==
    <<"i","p","_","c","o","n","n","t","r","a","c","k","_","c","o","u","n","t">>
ip_conntrack_max ==
    <<"i","p","_","c","o","n","n","t","r","a","c","k","_","m","a","x">>
nf_conntrack_count ==
    <<"n","f","_","c","o","n","n","t","r","a","c","k","_","c","o","u","n","t">>
nf_conntrack_max ==
    <<"n","f","_","c","o","n","n","t","r","a","c","k","_","m","a","x">>

dfltFiles ==
    <<ip_conntrack_count, ip_conntrack_max, nf_conntrack_count, nf_conntrack_max>>

\* The candidate of TestNoFilesFound: a name without an underscore.
baz_txt == <<"b","a","z",".","t","x","t">>

(***************************************************************************)
(* The inputs: configurations, filesystems and provider results.           *)
(***************************************************************************)
tmpDir == "/tmp/x"

AllDirs == {dfltDirs[1], dfltDirs[2], tmpDir}
AllFiles == {ip_conntrack_count, ip_conntrack_max, nf_conntrack_count,
             nf_conntrack_max, baz_txt}

\* dirs = [] (unset), the two default directories in the other order, one
\* directory of the user's.
DirConfigs == {<<>>, <<dfltDirs[2], dfltDirs[1]>>, <<tmpDir>>}
\* files = [] (unset), the candidate lists of the tests, and a list with a
\* name that has no underscore before one that has.
FileConfigs == {<<>>, <<baz_txt>>, <<nf_conntrack_count, nf_conntrack_max>>,
                <<baz_txt, ip_conntrack_count>>}

\* What os.Stat and ioutil.ReadFile find at a path.
AbsentFile == [exists |-> FALSE, readable |-> FALSE, contents |-> <<>>]
UnreadableFile == [exists |-> TRUE, readable |-> FALSE, contents |-> <<>>]
File(c) == [exists |-> TRUE, readable |-> TRUE, contents |-> c]
\* Contents that hold a number, and one that holds none.
NumericContents == {<<"7">>, <<" ","4","2","\n">>}
Contents == NumericContents \cup {<<"x">>}
PresentFiles == {UnreadableFile} \cup {File(c) : c \in Contents}

\* net.ConntrackStat: the entry of TestCollectStats, and a second one that
\* differs from it in every counter.
StatA ==
    [Entries |-> 1234, Searched |-> 10, Found |-> 1, New |-> 5, Invalid |-> 43,
     Ignore |-> 13, Delete |-> 3, DeleteList |-> 5, Insert |-> 9,
     InsertFailed |-> 20, Drop |-> 49, EarlyDrop |-> 7, IcmpError |-> 21,
     ExpectNew |-> 12, ExpectCreate |-> 44, ExpectDelete |-> 53,
     SearchRestart |-> 31]
StatB ==
    [Entries |-> 100, Searched |-> 101, Found |-> 102, New |-> 103,
     Invalid |-> 104, Ignore |-> 105, Delete |-> 106, DeleteList |-> 107,
     Insert |-> 108, InsertFailed |-> 109, Drop |-> 110, EarlyDrop |-> 111,
     IcmpError |-> 112, ExpectNew |-> 113, ExpectCreate |-> 114,
     ExpectDelete |-> 115, SearchRestart |-> 116]
StatEntries == {StatA, StatB}

SeqsUpTo(S, n) == UNION {[1..k -> S] : k \in 0..n}

(***************************************************************************)
(* The state.                                                              *)
(***************************************************************************)
VARIABLES
    Dirs,          \* Conntrack.Dirs
    Files,         \* Conntrack.Files
    CollectStats,  \* Conntrack.CollectStats
    PerCPU,        \* Conntrack.PerCPU
    fs,            \* the filesystem: what is at filepath.Join(dir, file)
    psStats,       \* what c.ps.NetConntrack returns: the entries,
    psErr,         \*   and whether it returns an error with them
    pc,            \* where Gather is: "idle", "files", "stats", "return"
    di,            \* the outer loop's position in c.Dirs
    fi,            \* the inner loop's position in c.Files
    fields,        \* Gather's local map fields
    acc,           \* what this cycle gave the accumulator
    ret,           \* what the last Gather returned: "none", "nil", "error"
    psCalls,       \* calls of c.ps.NetConntrack in this cycle
    prev           \* the output of the cycle before the last one started

config == <<Dirs, Files, CollectStats, PerCPU>>
world == <<fs, psStats, psErr>>
vars == <<Dirs, Files, CollectStats, PerCPU, fs, psStats, psErr, pc, di, fi,
          fields, acc, ret, psCalls, prev>>

(***************************************************************************)
(* The library functions Gather calls, on the strings of the model.        *)
(***************************************************************************)
\* strings.Index(s, sep) for a one-character sep, 1-based; 0 when absent.
RECURSIVE IndexFrom(_, _, _)
IndexFrom(s, sep, i) ==
    IF i > Len(s) THEN 0
    ELSE IF s[i] = sep THEN i
    ELSE IndexFrom(s, sep, i + 1)

\* strings.SplitN(s, sep, 2): s cut at the first sep, or s alone.
SplitN2(s, sep) ==
    LET i == IndexFrom(s, sep, 1)
    IN  IF i = 0 THEN <<s>>
        ELSE <<SubSeq(s, 1, i - 1), SubSeq(s, i + 1, Len(s))>>

\* filepath.Join(dir, file): the names of the model hold no separator and
\* no dot segment, so the path is the pair.
Join(dir, file) == <<dir, file>>

WhiteSpace == {" ", "\t", "\n", "\r"}

\* strings.TrimSpace
RECURSIVE TrimLeft(_)
TrimLeft(s) ==
    IF s # <<>> /\ Head(s) \in WhiteSpace THEN TrimLeft(Tail(s)) ELSE s
RECURSIVE TrimRight(_)
TrimRight(s) ==
    IF s # <<>> /\ s[Len(s)] \in WhiteSpace
    THEN TrimRight(SubSeq(s, 1, Len(s) - 1))
    ELSE s
TrimSpace(s) == TrimRight(TrimLeft(s))

Digits == <<"0", "1", "2", "3", "4", "5", "6", "7", "8", "9">>
IsDigit(c) == \E d \in 1..Len(Digits) : Digits[d] = c
DigitVal(c) == (CHOOSE d \in 1..Len(Digits) : Digits[d] = c) - 1
RECURSIVE Decimal(_)
Decimal(s) ==
    IF s = <<>> THEN 0
    ELSE Decimal(SubSeq(s, 1, Len(s) - 1)) * Len(Digits) + DigitVal(s[Len(s)])

\* strconv.ParseFloat(v, 64) on the contents of the model: a string of
\* decimal digits is its value; anything else is a syntax error, and the
\* value returned with the error is 0.
ParseFloat(v) ==
    IF v # <<>> /\ \A i \in 1..Len(v) : IsDigit(v[i])
    THEN [val |-> Decimal(v), err |-> FALSE]
    ELSE [val |-> 0, err |-> TRUE]

(***************************************************************************)
(* The accumulator: the errors, the counter records and the fields records *)
(* of one cycle, in the order they were added.                             *)
(***************************************************************************)
EmptyAcc == [errors |-> <<>>, counters |-> <<>>, fields |-> <<>>]

\* acc.AddError(fmt.Errorf("E! failed to read file '%s': %v", fName, err))
ReadError(fName) ==
    [kind |-> "read", dir |-> fName[1], file |-> fName[2], v |-> <<>>]
\* acc.AddError(fmt.Errorf("E! failed to parse metric, ... found '%s'", v))
ParseError(v) == [kind |-> "parse", dir |-> "", file |-> <<>>, v |-> v]
\* acc.AddError(fmt.Errorf("E! failed to retrieve conntrack statistics"))
StatsError == [kind |-> "stats", dir |-> "", file |-> <<>>, v |-> <<>>]

\* m[k] = v on a Go map
Put(m, k, v) == [x \in DOMAIN m \cup {k} |-> IF x = k THEN v ELSE m[x]]
EmptyMap == <<>>

(***************************************************************************)
(* Conntrack.setDefaults                                                   *)
(***************************************************************************)
\* A slip: the defaults are added to the list instead of standing in for an
\* empty one.
setDefaultDirsAppend(dirs) == dirs \o dfltDirs

setDefaultDirs(dirs) == IF Len(dirs) = 0 THEN dfltDirs ELSE dirs
setDefaultFiles(files) == IF Len(files) = 0 THEN dfltFiles ELSE files

(***************************************************************************)
(* Gather, the body of the inner loop: one (dir, file) candidate, from the *)
(* map and the errors before it to the map and the errors after it.        *)
(***************************************************************************)
\* strings.Split(s, sep): s cut at every sep.
RECURSIVE Split(_, _)
Split(s, sep) ==
    LET i == IndexFrom(s, sep, 1)
    IN  IF i = 0 THEN <<s>>
        ELSE <<SubSeq(s, 1, i - 1)>> \o Split(SubSeq(s, i + 1, Len(s)), sep)

\* A slip: strings.Split for strings.SplitN(file, "_", 2), so that parts[1]
\* ends at the second underscore.
MetricKeySplit(file) == <<"i", "p", "_">> \o Split(file, "_")[2]

MetricKey(file) == <<"i", "p", "_">> \o SplitN2(file, "_")[2]

\* A slip: the error of os.Stat is reported before the candidate is skipped.
GatherFileStatError(dir, file, flds, errs) ==
    IF Len(SplitN2(file, "_")) < 2
    THEN [fields |-> flds, errors |-> errs]
    ELSE LET metricKey == MetricKey(file)
             fName == Join(dir, file)
         IN  IF ~fs[fName].exists
             THEN [fields |-> flds, errors |-> Append(errs, ReadError(fName))]
             ELSE IF ~fs[fName].readable
             THEN [fields |-> flds, errors |-> Append(errs, ReadError(fName))]
             ELSE LET v == TrimSpace(fs[fName].contents)
                      r == ParseFloat(v)
                  IN  [fields |-> Put(flds, metricKey, r.val),
                       errors |-> IF r.err
                                  THEN Append(errs, ParseError(v))
                                  ELSE errs]

GatherFile(dir, file, flds, errs) ==
    IF Len(SplitN2(file, "_")) < 2
    THEN [fields |-> flds, errors |-> errs]
    ELSE LET metricKey == MetricKey(file)
             fName == Join(dir, file)
         IN  IF ~fs[fName].exists
             THEN [fields |-> flds, errors |-> errs]
             ELSE IF ~fs[fName].readable
             THEN [fields |-> flds, errors |-> Append(errs, ReadError(fName))]
             ELSE LET v == TrimSpace(fs[fName].contents)
                      r == ParseFloat(v)
                  IN  \* fields[metricKey], err = strconv.ParseFloat(v, 64)
                      [fields |-> Put(flds, metricKey, r.val),
                       errors |-> IF r.err
                                  THEN Append(errs, ParseError(v))
                                  ELSE errs]

(***************************************************************************)
(* Gather, the statistics: one tagged counter record per provider entry.   *)
(***************************************************************************)
\* fmt.Sprintf("cpu%d", i) for the 0-based index i, or "all"
Tags(i) == IF PerCPU THEN [cpu |-> "cpu" \o ToString(i)] ELSE [cpu |-> "all"]

\* A slip: insert_failed is filled from sts.Insert.
statFieldsSlip(sts) ==
    [entries |-> sts.Entries, searched |-> sts.Searched, found |-> sts.Found,
     new |-> sts.New, invalid |-> sts.Invalid, ignore |-> sts.Ignore,
     delete |-> sts.Delete, delete_list |-> sts.DeleteList,
     insert |-> sts.Insert, insert_failed |-> sts.Insert,
     drop |-> sts.Drop, early_drop |-> sts.EarlyDrop,
     icmp_error |-> sts.IcmpError, expect_new |-> sts.ExpectNew,
     expect_create |-> sts.ExpectCreate, expect_delete |-> sts.ExpectDelete,
     search_restart |-> sts.SearchRestart]

statFields(sts) ==
    [entries |-> sts.Entries, searched |-> sts.Searched, found |-> sts.Found,
     new |-> sts.New, invalid |-> sts.Invalid, ignore |-> sts.Ignore,
     delete |-> sts.Delete, delete_list |-> sts.DeleteList,
     insert |-> sts.Insert, insert_failed |-> sts.InsertFailed,
     drop |-> sts.Drop, early_drop |-> sts.EarlyDrop,
     icmp_error |-> sts.IcmpError, expect_new |-> sts.ExpectNew,
     expect_create |-> sts.ExpectCreate, expect_delete |-> sts.ExpectDelete,
     search_restart |-> sts.SearchRestart]

\* for i, sts := range stats { ... acc.AddCounter(inputName, statFields, tags) }
StatRecords(stats) ==
    [i \in 1..Len(stats) |->
        [name |-> inputName, fields |-> statFields(stats[i]), tags |-> Tags(i - 1)]]

\* The accumulator after the call of the provider: the error it returned,
\* if any, then a record for every entry it returned.
CollectInto(a) ==
    [a EXCEPT !.errors = IF psErr THEN Append(@, StatsError) ELSE @,
              !.counters = @ \o StatRecords(psStats)]

(***************************************************************************)
(* The steps of Gather.                                                    *)
(***************************************************************************)
NoOutput == [acc |-> EmptyAcc, ret |-> "none"]

\* Gather is entered: c.setDefaults(), fields := make(map[string]interface{})
Start ==
    /\ pc = "idle"
    /\ Dirs' = setDefaultDirs(Dirs)
    /\ Files' = setDefaultFiles(Files)
    /\ fields' = EmptyMap
    /\ acc' = EmptyAcc
    /\ psCalls' = 0
    /\ prev' = [acc |-> acc, ret |-> ret]
    /\ di' = 1
    /\ fi' = 1
    /\ pc' = IF Len(Dirs') = 0 \/ Len(Files') = 0 THEN "stats" ELSE "files"
    /\ UNCHANGED <<CollectStats, PerCPU, ret, world>>

\* One iteration of the inner loop, and the move to the next candidate.
FileStep ==
    /\ pc = "files"
    /\ LET r == GatherFile(Dirs[di], Files[fi], fields, acc.errors)
       IN  /\ fields' = r.fields
           /\ acc' = [acc EXCEPT !.errors = r.errors]
    /\ IF fi < Len(Files)
       THEN /\ fi' = fi + 1
            /\ UNCHANGED <<di, pc>>
       ELSE /\ fi' = 1
            /\ IF di < Len(Dirs)
               THEN /\ di' = di + 1
                    /\ UNCHANGED pc
               ELSE /\ di' = 1
                    /\ pc' = "stats"
    /\ UNCHANGED <<config, world, ret, psCalls, prev>>

\* A slip: the check of len(fields) comes before the statistics, so that a
\* cycle without fields returns before the provider is asked.
StatsStepAfterCheck ==
    /\ pc = "stats"
    /\ IF CollectStats /\ DOMAIN fields # {}
       THEN /\ psCalls' = psCalls + 1
            /\ acc' = CollectInto(acc)
       ELSE UNCHANGED <<psCalls, acc>>
    /\ pc' = "return"
    /\ UNCHANGED <<config, world, di, fi, fields, ret, prev>>

\* A slip: the provider is called before c.CollectStats is looked at.
StatsStepCallFirst ==
    /\ pc = "stats"
    /\ psCalls' = psCalls + 1
    /\ acc' = IF CollectStats THEN CollectInto(acc) ELSE acc
    /\ pc' = "return"
    /\ UNCHANGED <<config, world, di, fi, fields, ret, prev>>

\* if c.CollectStats { stats, err := c.ps.NetConntrack(c.PerCPU) ... }
StatsStep ==
    /\ pc = "stats"
    /\ IF CollectStats
       THEN /\ psCalls' = psCalls + 1
            /\ acc' = CollectInto(acc)
       ELSE UNCHANGED <<psCalls, acc>>
    /\ pc' = "return"
    /\ UNCHANGED <<config, world, di, fi, fields, ret, prev>>

\* if len(fields) == 0 { return fmt.Errorf(...) }
\* acc.AddFields(inputName, fields, nil); return nil
Finish ==
    /\ pc = "return"
    /\ IF DOMAIN fields = {}
       THEN /\ ret' = "error"
            /\ UNCHANGED acc
       ELSE /\ ret' = "nil"
            /\ acc' = [acc EXCEPT !.fields =
                          Append(@, [name |-> inputName, fields |-> fields,
                                     tags |-> EmptyMap])]
    /\ pc' = "idle"
    /\ UNCHANGED <<config, world, di, fi, fields, psCalls, prev>>

Next == Start \/ FileStep \/ StatsStep \/ Finish

(***************************************************************************)
(* The initial states: a collector as configured, before its first cycle,  *)
(* on a filesystem that holds at most MaxPresent of the candidates.        *)
(***************************************************************************)
Idle ==
    /\ pc = "idle"
    /\ di = 1
    /\ fi = 1
    /\ fields = EmptyMap
    /\ acc = EmptyAcc
    /\ ret = "none"
    /\ psCalls = 0
    /\ prev = NoOutput

Candidates(dirs, files) ==
    {Join(setDefaultDirs(dirs)[i], setDefaultFiles(files)[j]) :
        i \in 1..Len(setDefaultDirs(dirs)), j \in 1..Len(setDefaultFiles(files))}

Filesystems(dirs, files) ==
    UNION {{[p \in AllDirs \X AllFiles |-> IF p \in S THEN g[p] ELSE AbsentFile] :
                g \in [S -> PresentFiles]} :
           S \in {T \in SUBSET Candidates(dirs, files) : Cardinality(T) <= MaxPresent}}

\* The file pass in full, the provider in three cases.
Init ==
    /\ Dirs \in DirConfigs
    /\ Files \in FileConfigs
    /\ fs \in Filesystems(Dirs, Files)
    /\ \E p \in {<<FALSE, FALSE, <<StatA>>, FALSE>>,
                  <<TRUE, FALSE, <<StatA>>, FALSE>>,
                  <<TRUE, TRUE, <<>>, TRUE>>} :
          /\ CollectStats = p[1]
          /\ PerCPU = p[2]
          /\ psStats = p[3]
          /\ psErr = p[4]
    /\ Idle

Spec == Init /\ [][Next]_vars

\* The provider in full, the file pass on one candidate.
InitStats ==
    /\ Dirs = <<tmpDir>>
    /\ Files = <<ip_conntrack_count>>
    /\ fs \in Filesystems(Dirs, Files)
    /\ CollectStats \in BOOLEAN
    /\ PerCPU \in BOOLEAN
    /\ psStats \in SeqsUpTo(StatEntries, MaxEntries)
    /\ psErr \in BOOLEAN
    /\ Idle

SpecStats == InitStats /\ [][Next]_vars

\* The default directories and two candidates of different keys, with every
\* candidate free to be any of `files`.
InitDense(files) ==
    /\ Dirs = <<>>
    /\ Files = <<nf_conntrack_count, nf_conntrack_max>>
    /\ \E g \in [Candidates(Dirs, Files) -> files] :
          fs = [p \in AllDirs \X AllFiles |->
                   IF p \in DOMAIN g THEN g[p] ELSE AbsentFile]
    /\ CollectStats \in BOOLEAN
    /\ PerCPU = FALSE
    /\ psStats = <<StatA>>
    /\ psErr = FALSE
    /\ Idle

\* Every candidate absent, unreadable or of any content.
InitAnyFiles == InitDense({AbsentFile} \cup PresentFiles)

SpecAnyFiles == InitAnyFiles /\ [][Next]_vars

\* Every candidate absent, unreadable or holding a number: the filesystems
\* on which no parse fails.
InitReadFailures ==
    InitDense({AbsentFile, UnreadableFile} \cup {File(c) : c \in NumericContents})

SpecReadFailures == InitReadFailures /\ [][Next]_vars

(***************************************************************************)
(* What the claims speak of, stated on the configuration and the           *)
(* filesystem alone, not through the operators above.                      *)
(***************************************************************************)
\* A cycle has ended: acc and ret are its output.
Done == pc = "idle" /\ ret # "none"

\* The candidates in the order of the loops.
Positions == {<<i, j>> : i \in 1..Len(Dirs), j \in 1..Len(Files)}
Before(p, q) == p[1] < q[1] \/ (p[1] = q[1] /\ p[2] < q[2])
Successor(p) == IF p[2] < Len(Files) THEN <<p[1], p[2] + 1>> ELSE <<p[1] + 1, 1>>
LastPosition == <<Len(Dirs), Len(Files)>>
FileAt(p) == Files[p[2]]
At(p) == fs[<<Dirs[p[1]], Files[p[2]]>>]

\* The candidates whose iteration is over.
Processed ==
    IF pc = "files" THEN {p \in Positions : Before(p, <<di, fi>>)}
    ELSE IF pc = "idle" /\ ret = "none" THEN {}
    ELSE Positions

HasUnderscore(f) == \E i \in 1..Len(f) : f[i] = "_"
FirstUnderscore(f) ==
    CHOOSE i \in 1..Len(f) : f[i] = "_" /\ \A j \in 1..(i - 1) : f[j] # "_"
\* "ip_" + the substring after the first underscore
KeyOf(f) == <<"i", "p", "_">> \o SubSeq(f, FirstUnderscore(f) + 1, Len(f))

\* The number a content holds, -1 when it holds none.
NumberIn(c) ==
    CASE c = <<"7">> -> 7
      [] c = <<" ", "4", "2", "\n">> -> 42
      [] OTHER -> -1

Absent(p) == ~At(p).exists
Unreadable(p) == HasUnderscore(FileAt(p)) /\ At(p).exists /\ ~At(p).readable
Read(p) == HasUnderscore(FileAt(p)) /\ At(p).exists /\ At(p).readable
Unparsable(p) == Read(p) /\ NumberIn(At(p).contents) = -1
Usable(p) == Read(p) /\ NumberIn(At(p).contents) # -1

ErrorsOf(kinds) == SelectSeq(acc.errors, LAMBDA e : e.kind \in kinds)
Record == acc.fields[1].fields

StatFieldNames ==
    {"entries", "searched", "found", "new", "invalid", "ignore", "delete",
     "delete_list", "insert", "insert_failed", "drop", "early_drop",
     "icmp_error", "expect_new", "expect_create", "expect_delete",
     "search_restart"}
CpuNames == <<"cpu0", "cpu1", "cpu2", "cpu3">>

\* The counter record rec carries the counters of the entry sts, one to one.
CarriesEntry(rec, sts) ==
    /\ rec.name = inputName
    /\ DOMAIN rec.fields = StatFieldNames
    /\ rec.fields.entries = sts.Entries
    /\ rec.fields.searched = sts.Searched
    /\ rec.fields.found = sts.Found
    /\ rec.fields.new = sts.New
    /\ rec.fields.invalid = sts.Invalid
    /\ rec.fields.ignore = sts.Ignore
    /\ rec.fields.delete = sts.Delete
    /\ rec.fields.delete_list = sts.DeleteList
    /\ rec.fields.insert = sts.Insert
    /\ rec.fields.insert_failed = sts.InsertFailed
    /\ rec.fields.drop = sts.Drop
    /\ rec.fields.early_drop = sts.EarlyDrop
    /\ rec.fields.icmp_error = sts.IcmpError
    /\ rec.fields.expect_new = sts.ExpectNew
    /\ rec.fields.expect_create = sts.ExpectCreate
    /\ rec.fields.expect_delete = sts.ExpectDelete
    /\ rec.fields.search_restart = sts.SearchRestart

(***************************************************************************)
(* C1: the iteration on a candidate that exists and is read but whose      *)
(* trimmed content is no number reports exactly one error and leaves the   *)
(* map as it was: no field is written for the candidate's key.             *)
(***************************************************************************)
C1_ParseFailureWritesNoField ==
    [][(pc = "files" /\ Unparsable(<<di, fi>>))
          => /\ Len(acc'.errors) = Len(acc.errors) + 1
             /\ acc'.errors[Len(acc'.errors)].kind = "parse"
             /\ fields' = fields]_vars

(***************************************************************************)
(* C2: every key of the emitted fields record holds the value parsed from  *)
(* the last candidate, in the order of the loops, that maps to the key and *)
(* was read and parsed.                                                    *)
(***************************************************************************)
C2_LastParsedWins ==
    (Done /\ ret = "nil") =>
        \A k \in DOMAIN Record :
            \E p \in Positions :
                /\ Usable(p)
                /\ KeyOf(FileAt(p)) = k
                /\ \A q \in Positions :
                      (Usable(q) /\ KeyOf(FileAt(q)) = k) => ~Before(p, q)
                /\ Record[k] = NumberIn(At(p).contents)

(***************************************************************************)
(* C3: Gather returns the hard error exactly when no candidate yielded a   *)
(* usable value; with the error no fields record is emitted, and otherwise *)
(* exactly one untagged fields record is emitted and Gather returns nil.   *)
(***************************************************************************)
C3_HardErrorIffNothingUsable ==
    Done =>
        /\ (ret = "error") <=> ~(\E p \in Positions : Usable(p))
        /\ ret = "error" => acc.fields = <<>>
        /\ ret # "error" =>
              /\ ret = "nil"
              /\ Len(acc.fields) = 1
              /\ DOMAIN acc.fields[1].tags = {}

(***************************************************************************)
(* C4: with collect_stats on and an error from the provider, the cycle     *)
(* reports exactly one error for it and emits no tagged counter record,    *)
(* whatever entries came with the error; the cycle is not aborted by it.   *)
(***************************************************************************)
C4_ProviderFailureEmitsNothing ==
    (Done /\ CollectStats /\ psErr) =>
        /\ Len(ErrorsOf({"stats"})) = 1
        /\ acc.counters = <<>>
        /\ (DOMAIN fields # {}) => (ret = "nil" /\ Len(acc.fields) = 1)

(***************************************************************************)
(* C5: a candidate name with an underscore whose file exists and parses    *)
(* puts the key "ip_" + (what follows its first underscore) into the       *)
(* emitted record, so nf_conntrack_count and ip_conntrack_count share the  *)
(* key ip_conntrack_count and no key starts with "nf_"; a name without an  *)
(* underscore gives no field and no error, even if such a file exists.     *)
(***************************************************************************)
C5_KeysNormalised ==
    /\ MetricKey(nf_conntrack_count) = ip_conntrack_count
    /\ MetricKey(ip_conntrack_count) = ip_conntrack_count
    /\ \A k \in DOMAIN fields :
          /\ SubSeq(k, 1, 3) # <<"n", "f", "_">>
          /\ \E p \in Processed : Read(p) /\ KeyOf(FileAt(p)) = k
    /\ Len(ErrorsOf({"read", "parse"})) =
          Cardinality({p \in Processed : Unreadable(p) \/ Unparsable(p)})
    /\ Done =>
          /\ (\E p \in Positions : Usable(p)) => ret = "nil"
          /\ ret = "nil" =>
                /\ \A p \in Positions :
                      Usable(p) => KeyOf(FileAt(p)) \in DOMAIN Record
                /\ \A k \in DOMAIN Record : SubSeq(k, 1, 3) # <<"n", "f", "_">>

\* A cycle has ended whose record got the key ip_conntrack_count from a file
\* named nf_conntrack_count, past a file that exists under a name without
\* an underscore.
C5_Witness ==
    /\ Done
    /\ ret = "nil"
    /\ ip_conntrack_count \in DOMAIN Record
    /\ \E p \in Positions : Usable(p) /\ FileAt(p) = nf_conntrack_count
    /\ \A p \in Positions : Usable(p) => FileAt(p) = nf_conntrack_count

\* A file named baz.txt exists and holds a number, and the cycle ended
\* without a field.
C5_WitnessNoUnderscore ==
    /\ Done
    /\ ret = "error"
    /\ \E p \in Positions :
          /\ FileAt(p) = baz_txt
          /\ At(p).exists /\ At(p).readable
          /\ NumberIn(At(p).contents) # -1

(***************************************************************************)
(* C6: with collect_stats on and N entries from the provider, the cycle    *)
(* emits exactly N tagged counter records in the provider's order; the     *)
(* record of the entry at index i has the one tag cpu = "all" when per_cpu *)
(* is off and cpu = "cpu<i>" when it is on, and its 17 fields are the      *)
(* entry's counters.                                                       *)
(***************************************************************************)
C6_OneRecordPerEntry ==
    (Done /\ CollectStats) =>
        /\ Len(acc.counters) = Len(psStats)
        /\ \A n \in 1..Len(psStats) :
              /\ CarriesEntry(acc.counters[n], psStats[n])
              /\ DOMAIN acc.counters[n].tags = {"cpu"}
              /\ acc.counters[n].tags.cpu =
                    IF PerCPU THEN CpuNames[n] ELSE "all"

\* Two different entries came back with per_cpu on, and two records went out.
C6_Witness ==
    /\ Done
    /\ CollectStats
    /\ PerCPU
    /\ Len(psStats) = 2
    /\ psStats[1] # psStats[2]
    /\ Len(acc.counters) = 2
    /\ acc.counters[2].tags.cpu = "cpu1"

(***************************************************************************)
(* C7: the iteration on a candidate that exists but cannot be read reports *)
(* exactly one error, writes nothing to the map, and the loop goes on to   *)
(* the next candidate; the iteration on an absent candidate reports        *)
(* nothing.  As claimed: in a cycle with a read failure, every candidate   *)
(* that was read and parsed has its parsed value in the emitted record.    *)
(* As amended: every such candidate has its key in the emitted record, and *)
(* its parsed value under that key unless a later candidate that maps to   *)
(* the same key was read.                                                  *)
(***************************************************************************)
C7Iteration ==
    /\ (pc = "files" /\ Unreadable(<<di, fi>>)) =>
          /\ acc'.errors =
                Append(acc.errors,
                       [kind |-> "read", dir |-> Dirs[di], file |-> Files[fi],
                        v |-> <<>>])
          /\ fields' = fields
    /\ (pc = "files" /\ Absent(<<di, fi>>)) =>
          /\ acc' = acc
          /\ fields' = fields
    /\ (pc = "files" /\ (Unreadable(<<di, fi>>) \/ Absent(<<di, fi>>))) =>
          IF <<di, fi>> = LastPosition
          THEN pc' = "stats"
          ELSE pc' = "files" /\ <<di', fi'>> = Successor(<<di, fi>>)

C8_CollectorsIndependent ==
    (Done /\ CollectStats) =>
        /\ (DOMAIN fields = {}) =>
              /\ ret = "error"
              /\ Len(acc.counters) = Len(psStats)
              /\ \A n \in 1..Len(psStats) :
                    CarriesEntry(acc.counters[n], psStats[n])
        /\ (psErr /\ DOMAIN fields # {}) =>
              /\ ret = "nil"
              /\ Len(acc.fields) = 1
              /\ acc.fields[1].fields = fields

\* A cycle has ended with the hard error and two tagged counter records.
C8_Witness ==
    /\ Done
    /\ CollectStats
    /\ ret = "error"
    /\ Len(psStats) = 2
    /\ Len(acc.counters) = 2

\* A cycle whose provider call failed has ended with a fields record.
C8_WitnessProviderFailed ==
    /\ Done
    /\ CollectStats
    /\ psErr
    /\ ret = "nil"
    /\ Len(acc.fields) = 1

(***************************************************************************)
(* C9: two consecutive cycles of one collector on an unchanged filesystem  *)
(* and provider give the same output: the same return value, fields        *)
(* record, tagged counter records and errors.  The first cycle is the one  *)
(* in which setDefaults fills empty Dirs and Files.                        *)
(***************************************************************************)
C9_Idempotent ==
    (Done /\ prev.ret # "none") => prev = [acc |-> acc, ret |-> ret]

\* A second cycle has ended on a collector configured with neither dirs nor
\* files (no configuration of the model lists the defaults as they are),
\* with a fields record and an error in its output.
C9_Witness ==
    /\ Done
    /\ prev.ret = "nil"
    /\ Dirs = dfltDirs
    /\ Files = dfltFiles
    /\ Len(acc.errors) > 0

(***************************************************************************)
(* C10: in every cycle the provider is called exactly once when            *)
(* collect_stats is on and never when it is off, in which case no tagged   *)
(* counter record is emitted; the call comes only after the loops have     *)
(* gone through every candidate, first to last, also in a cycle whose file *)
(* pass found nothing.                                                     *)
(***************************************************************************)
C10Step ==
    /\ psCalls' # psCalls =>
          \/ pc = "idle" /\ psCalls' = 0
          \/ pc = "stats" /\ CollectStats /\ psCalls = 0 /\ psCalls' = 1
    /\ (pc = "idle" /\ pc' # "idle") =>
          pc' = "files" /\ <<di', fi'>> = <<1, 1>> /\ psCalls' = 0
    /\ (pc = "files" /\ pc' = "files") => <<di', fi'>> = Successor(<<di, fi>>)
    /\ (pc # "stats" /\ pc' = "stats") =>
          pc = "files" /\ <<di, fi>> = LastPosition
    /\ pc' = "idle" =>
          /\ pc = "return"
          /\ psCalls' = IF CollectStats THEN 1 ELSE 0
          /\ ~CollectStats => acc'.counters = <<>>

C10_ProviderCalledOnceAfterFiles == [][C10Step]_vars

\* A cycle whose file pass found nothing has ended, with one call of the
\* provider.
C10_Witness ==
    /\ Done
    /\ CollectStats
    /\ psCalls = 1
    /\ ret = "error"
    /\ acc.errors = <<>>
====
